---- MODULE Spec2Model ----
(***************************************************************************)
(* Model of the OutputBuffer broadcast engine of go-terminal-streamer      *)
(* (src/main.go): the replay buffer recentLines guarded by mu, the client  *)
(* registry guarded by clientsMu, the goroutines that ingest lines (main,  *)
(* and one ProcessStream per output stream) and the WebSocket handlers     *)
(* that join, receive history and leave.                                   *)
(***************************************************************************)
EXTENDS Integers, Sequences, FiniteSets, TLC

\* ---------------------------------------------------------------- bounds
\* Largest capacity handed to NewOutputBuffer (0..MaxCap are explored).
MaxCap == 2
\* Most lines the child writes to one stream (ProcessStream's input length).
MaxLines == 1
MaxRepeat == 2

\* ---------------------------------------------------------------- processes
Streams == {"stdout", "stderr"}
Ingesters == {"main"} \cup Streams
Viewers == {"ws1", "ws2"}
Procs == Ingesters \cup Viewers

NoOne == "none"
NoLine == <<"none", 0>>

VARIABLES
    maxBufferSize,  \* OutputBuffer.maxBufferSize
    recentLines,    \* OutputBuffer.recentLines
    clients,        \* OutputBuffer.clients (the keys of the map)
    mu,             \* OutputBuffer.mu: [writer, readers, waiting]
    clientsMu,      \* OutputBuffer.clientsMu: [writer, readers, waiting]
    pc,             \* position of every goroutine
    cur,            \* per ingester: the line its AddLine call carries
    input,          \* per stream: what the child writes to it, [n, end]
    exits,          \* how the child exits, if ever (what cmd.Wait returns)
    nread,          \* per stream: lines read so far by its scanner
    todo,           \* per ingester: clients the range loop of Broadcast has yet to visit
    lines,          \* per viewer: what is left to send of the GetLines copy
    faults,         \* per connection: what its peer may do, of "leave", "err" and "hang"
    repeat,         \* per connection: calls of AddClient and RemoveClient yet to be repeated
    transport,      \* per connection: "ok", "err" (sends fail) or "hang" (sends block)
    recv,           \* per connection: the messages written to it, in order
    appended,       \* every line appended to recentLines, in append order
    errlog,         \* per ingester: clients whose send error the current Broadcast logged
    panicked        \* a goroutine panicked: the program is gone

vars == <<maxBufferSize, recentLines, clients, mu, clientsMu, pc, cur, input,
          exits, nread, todo, lines, faults, repeat, transport, recv, appended, errlog,
          panicked>>

\* ---------------------------------------------------------------- helpers
Min(a, b) == IF a <= b THEN a ELSE b

\* s[1:] of Go, for a slice of length >= 1
Rest(s) == SubSeq(s, 2, Len(s))

\* The last n elements of s
LastN(s, n) == SubSeq(s, Len(s) - n + 1, Len(s))

Range(s) == {s[i] : i \in 1..Len(s)}

\* CanLock of a lock that writers get while readers hold it.
CanLockIgnoresReaders(m) == m.writer = NoOne

\* sync.RWMutex: Lock needs no holder at all, RLock no writer holding or waiting
CanLock(m) == m.writer = NoOne /\ m.readers = {}

\* CanRLock of a read that takes no lock.
CanRLockUnguarded(m) == TRUE

CanRLock(m) == m.writer = NoOne /\ m.waiting = {}

FreeMutex == [writer |-> NoOne, readers |-> {}, waiting |-> {}]

\* ---------------------------------------------------------------- NewOutputBuffer
\* What a stream can carry: up to MaxLines lines, then a clean end of input
\* or a read error.
Inputs == [n : 0..MaxLines, end : {"eof", "err"}]

\* What cmd.Wait() does: it never returns, returns nil, returns an error.
Exits == {"never", "ok", "error"}

\* A run of the child: what it writes to each stream and how it exits.
Runs == [stdout : Inputs, stderr : Inputs, exits : Exits]

\* The AddLine calls a run leads to, the announcement aside.
Weight(r) ==
    r.stdout.n + r.stderr.n
    + (IF r.stdout.end = "err" THEN 1 ELSE 0)
    + (IF r.stderr.end = "err" THEN 1 ELSE 0)
    + (IF r.exits # "never" THEN 1 ELSE 0)

\* The runs in which the child writes nothing to stderr before it is closed.
OneStream == {r \in Runs : r.stderr = [n |-> 0, end |-> "eof"]}

\* What the peer of a connection may do: "leave" (close it while the handler
\* waits in Receive), "err" (go away at any time: sends fail from then on),
\* "hang" (stop reading: sends block).
Stays == {}
Leaves == {"leave"}
AnyFault == {"leave", "err", "hang"}

\* The state NewOutputBuffer(capacity) returns, with the goroutines of main
\* not yet run: capacity drawn from caps, the child's run from runs, and for
\* each connection of peers that will call in, what its peer may do.
InitCalls(caps, runs, peers, reps) ==
    /\ maxBufferSize \in caps
    /\ recentLines = <<>>
    /\ clients = {}
    /\ mu = FreeMutex
    /\ clientsMu = FreeMutex
    /\ pc = [p \in Procs |-> IF p = "main" THEN "start"
                             ELSE IF p \in Streams THEN "off"
                             ELSE IF p \in DOMAIN peers THEN "addclient" ELSE "absent"]
    /\ cur = [p \in Ingesters |-> NoLine]
    /\ \E r \in runs :
          /\ input = [s \in Streams |-> r[s]]
          /\ exits = r.exits
    /\ nread = [s \in Streams |-> 0]
    /\ todo = [p \in Ingesters |-> {}]
    /\ lines = [v \in Viewers |-> <<>>]
    /\ faults = [v \in Viewers |-> IF v \in DOMAIN peers THEN peers[v] ELSE {}]
    /\ repeat = [v \in Viewers |-> IF v \in DOMAIN peers THEN reps ELSE 0]
    /\ transport = [v \in Viewers |-> "ok"]
    /\ recv = [v \in Viewers |-> <<>>]
    /\ appended = <<>>
    /\ errlog = [p \in Ingesters |-> {}]
    /\ panicked = FALSE

\* The program: WSHandler calls AddClient and RemoveClient once for its
\* connection.
InitWith(caps, runs, peers) == InitCalls(caps, runs, peers, 0)

\* One stream carries the child's output; one viewer, whose peer may do anything.
Init == InitWith(0..MaxCap, OneStream, [v \in {"ws1"} |-> AnyFault])

\* Both streams carry output, three lines at most after the announcement, the
\* child exiting with success if it does; one viewer, whose peer keeps reading
\* until it leaves.
InitStreams ==
    InitWith(1..MaxCap, {r \in Runs : Weight(r) <= 3 /\ r.exits # "error"},
             [v \in {"ws1"} |-> Leaves])

\* Two lines at most after the announcement, the streams ending cleanly and
\* the child exiting with success if it does; two
\* viewers that keep reading, the first until it leaves.
InitAgree ==
    InitWith({MaxCap},
             {r \in Runs : /\ Weight(r) <= 2 /\ r.exits # "error"
                           /\ r.stdout.end = "eof" /\ r.stderr.end = "eof"},
             [v \in Viewers |-> IF v = "ws1" THEN Leaves ELSE Stays])

\* Both streams carry output as in InitStreams, the buffer being of the
\* largest capacity.
InitOrder ==
    InitWith({MaxCap}, {r \in Runs : Weight(r) <= 3 /\ r.exits # "error"},
             [v \in {"ws1"} |-> Leaves])

\* One line at most after the announcement, the child exiting with success if
\* it does; two viewers whose peers may do anything.
InitFaulty ==
    InitWith(0..MaxCap, {r \in Runs : Weight(r) <= 1 /\ r.exits # "error"},
             [v \in Viewers |-> AnyFault])

\* ---------------------------------------------------------------- locking
\* Lock(): taken at once when the mutex is free, else the caller queues as a
\* pending writer (which holds back later RLock calls).
LockOrWait(m, p) ==
    IF CanLock(m)
    THEN [m EXCEPT !.writer = p, !.waiting = @ \ {p}]
    ELSE [m EXCEPT !.waiting = @ \cup {p}]

Unlock(m) == [m EXCEPT !.writer = NoOne]
RLock(m, p) == [m EXCEPT !.readers = @ \cup {p}]
RUnlock(m, p) == [m EXCEPT !.readers = @ \ {p}]

\* ---------------------------------------------------------------- AddLine
\* recentLines[1:] panics (slice bounds out of range) on an empty slice.
AddLinePanics(buf, capacity) == Len(buf) >= capacity /\ Len(buf) < 1

\* ShiftAppend with the full buffer losing its newest line instead of its oldest.
ShiftAppendDropsNewest(buf, capacity, line) ==
    IF Len(buf) >= capacity
    THEN Append(SubSeq(buf, 1, Len(buf) - 1), line)
    ELSE Append(buf, line)

\* ShiftAppend with > for >= in the test for a full buffer.
ShiftAppendLate(buf, capacity, line) ==
    IF Len(buf) > capacity
    THEN Append(Rest(buf), line)
    ELSE Append(buf, line)

\* ShiftAppend with the buffer kept newest first.
ShiftAppendPrepends(buf, capacity, line) ==
    IF Len(buf) >= capacity THEN <<line>> \o SubSeq(buf, 1, Len(buf) - 1) ELSE <<line>> \o buf

\* The value AddLine stores into recentLines.
ShiftAppend(buf, capacity, line) ==
    IF Len(buf) >= capacity
    THEN Append(Rest(buf), line)
    ELSE Append(buf, line)

\* AfterAddLine with the return after the error line of ExecuteCommand left out.
AfterAddLineNoReturn(p, line) ==
    IF p = "main"
    THEN (IF line[2] = 1 THEN "exec" ELSE IF line[2] = 2 THEN "succeed" ELSE "done")
    ELSE (IF line[2] = 0 THEN "done" ELSE "scan")

\* Where the caller of AddLine continues once AddLine returns: main after its
\* announcement (line 1) calls ExecuteCommand, which returns after either
\* completion line (2: exited with error, 3: completed successfully);
\* ProcessStream scans on after a line and returns after its error line (0).
AfterAddLine(p, line) ==
    IF p = "main"
    THEN (IF line[2] = 1 THEN "exec" ELSE "done")
    ELSE (IF line[2] = 0 THEN "done" ELSE "scan")

\* b.mu.Lock(), the append, b.mu.Unlock(): one step, since recentLines is
\* touched under mu alone; a panic inside leaves mu locked for good
AddLineStore(p) ==
    /\ ~panicked
    /\ pc[p] = "addline"
    /\ CanLock(mu)
    /\ IF AddLinePanics(recentLines, maxBufferSize)
       THEN /\ panicked' = TRUE
            /\ mu' = LockOrWait(mu, p)
            /\ UNCHANGED <<recentLines, appended, pc>>
       ELSE /\ recentLines' = ShiftAppend(recentLines, maxBufferSize, cur[p])
            /\ appended' = Append(appended, cur[p])
            /\ mu' = Unlock(LockOrWait(mu, p))
            /\ pc' = [pc EXCEPT ![p] = "broadcast"]
            /\ UNCHANGED panicked
    /\ UNCHANGED <<maxBufferSize, clients, clientsMu, cur, input, exits, faults, repeat, nread, todo, lines,
                   transport, recv, errlog>>

\* ---------------------------------------------------------------- Broadcast
\* b.clientsMu.RLock(); the range loop starts over the clients of that moment
BroadcastRLock(p) ==
    /\ ~panicked
    /\ pc[p] = "broadcast"
    /\ CanRLock(clientsMu)
    /\ clientsMu' = RLock(clientsMu, p)
    /\ todo' = [todo EXCEPT ![p] = clients]
    /\ pc' = [pc EXCEPT ![p] = "range"]
    /\ UNCHANGED <<maxBufferSize, recentLines, clients, mu, cur, input, exits, faults, repeat, nread, lines,
                   transport, recv, appended, errlog, panicked>>

\* AfterSend with the loop left at the first failed send.
AfterSendReturnOnError(rest, c, failed) == IF failed THEN {} ELSE rest \ {c}

\* The clients the range loop still visits after the send to c returned.
AfterSend(rest, c, failed) == rest \ {c}

\* What a connection holds after websocket.JSON.Send returned for msg.
Sent(log, msg, failed) == IF failed THEN log ELSE Append(log, msg)

\* How a write to a connection can go: a healthy one delivers, or its peer
\* has gone away (this and every later send fail), or its peer has stopped
\* reading (the send blocks); a broken one stays broken.
SendOutcomes(t, f) == IF t = "ok" THEN {"ok"} \cup (f \cap {"err", "hang"}) ELSE {t}

\* one iteration of the range loop: Send to c, log an error and continue
BroadcastSend(p, c) ==
    /\ ~panicked
    /\ pc[p] = "range"
    /\ c \in todo[p]
    /\ transport[c] # "hang"
    /\ \E o \in SendOutcomes(transport[c], faults[c]) :
          /\ transport' = [transport EXCEPT ![c] = o]
          /\ IF o = "hang"
             THEN UNCHANGED <<recv, errlog, todo>>
             ELSE /\ recv' = [recv EXCEPT ![c] = Sent(@, <<"live", cur[p]>>, o = "err")]
                  /\ errlog' = [errlog EXCEPT ![p] = IF o = "err" THEN @ \cup {c} ELSE @]
                  /\ todo' = [todo EXCEPT ![p] = AfterSend(@, c, o = "err")]
    /\ UNCHANGED <<maxBufferSize, recentLines, clients, mu, clientsMu, pc, cur,
                   input, exits, faults, repeat, nread, lines, appended, panicked>>

\* the loop is over: the deferred RUnlock runs, Broadcast and AddLine return
BroadcastReturn(p) ==
    /\ ~panicked
    /\ pc[p] = "range"
    /\ todo[p] = {}
    /\ clientsMu' = RUnlock(clientsMu, p)
    /\ pc' = [pc EXCEPT ![p] = AfterAddLine(p, cur[p])]
    /\ cur' = [cur EXCEPT ![p] = NoLine]
    /\ errlog' = [errlog EXCEPT ![p] = {}]
    /\ UNCHANGED <<maxBufferSize, recentLines, clients, mu, input, exits, faults, repeat, nread, todo, lines,
                   transport, recv, appended, panicked>>

\* ---------------------------------------------------------------- main, ExecuteCommand
\* main's goroutine: buffer.AddLine("[SYSTEM] Executing command: ...")
MainAnnounce ==
    /\ ~panicked
    /\ pc["main"] = "start"
    /\ cur' = [cur EXCEPT !["main"] = <<"main", 1>>]
    /\ pc' = [pc EXCEPT !["main"] = "addline"]
    /\ UNCHANGED <<maxBufferSize, recentLines, clients, mu, clientsMu, input, exits, faults, repeat, nread,
                   todo, lines, transport, recv, appended, errlog, panicked>>

\* ExecuteCommand up to cmd.Start(): an empty command, a pipe that cannot be
\* made or a failed start return the error; else both ProcessStream
\* goroutines are started
ExecuteCommandLaunch ==
    /\ ~panicked
    /\ pc["main"] = "exec"
    /\ \E started \in BOOLEAN :
          pc' = IF started
                THEN [p \in Procs |-> IF p = "main" THEN "wait"
                                      ELSE IF p \in Streams THEN "scan" ELSE pc[p]]
                ELSE [pc EXCEPT !["main"] = "done"]
    /\ UNCHANGED <<maxBufferSize, recentLines, clients, mu, clientsMu, cur, input, exits, faults, repeat, nread,
                   todo, lines, transport, recv, appended, errlog, panicked>>

\* The completion line ExecuteCommand adds when cmd.Wait() returned err.
CompletionLine(failed) == IF failed THEN <<"main", 2>> ELSE <<"main", 3>>

\* cmd.Wait() returned, with an error or without: the matching completion
\* line is added ("succeed" is the statement after the if, reached from
\* cmd.Wait() alone as long as the if block returns)
ExecuteCommandWait ==
    /\ ~panicked
    /\ \/ /\ pc["main"] = "wait"
          /\ exits # "never"
          /\ cur' = [cur EXCEPT !["main"] = CompletionLine(exits = "error")]
       \/ /\ pc["main"] = "succeed"
          /\ cur' = [cur EXCEPT !["main"] = CompletionLine(FALSE)]
    /\ pc' = [pc EXCEPT !["main"] = "addline"]
    /\ UNCHANGED <<maxBufferSize, recentLines, clients, mu, clientsMu, input, exits, faults, repeat, nread,
                   todo, lines, transport, recv, appended, errlog, panicked>>

\* ---------------------------------------------------------------- ProcessStream
\* AddsErrorLine with the test of scanner.Err() turned around.
AddsErrorLineOnEOF(end) == end # "err"

\* if err := scanner.Err(); err != nil: Err() is nil after a clean end of input
AddsErrorLine(end) == end = "err"

\* scanner.Scan(): the next line of the input; at its end the loop is left,
\* and after a read error one "[ERROR] Scanner error" line (numbered 0 here)
\* is added
ProcessStreamScan(s) ==
    /\ ~panicked
    /\ pc[s] = "scan"
    /\ IF nread[s] < input[s].n
       THEN /\ nread' = [nread EXCEPT ![s] = @ + 1]
            /\ cur' = [cur EXCEPT ![s] = <<s, nread[s] + 1>>]
            /\ pc' = [pc EXCEPT ![s] = "addline"]
       ELSE IF AddsErrorLine(input[s].end)
       THEN /\ cur' = [cur EXCEPT ![s] = <<s, 0>>]
            /\ pc' = [pc EXCEPT ![s] = "addline"]
            /\ UNCHANGED nread
       ELSE /\ pc' = [pc EXCEPT ![s] = "done"]
            /\ UNCHANGED <<nread, cur>>
    /\ UNCHANGED <<maxBufferSize, recentLines, clients, mu, clientsMu, input, exits, faults, repeat, todo,
                   lines, transport, recv, appended, errlog, panicked>>

\* ---------------------------------------------------------------- AddClient
\* WSHandler calls AddClient: b.clientsMu.Lock(), b.clients[ws] = true,
\* b.clientsMu.Unlock(). While a Broadcast holds the read lock the caller
\* queues as a pending writer. Connections are named in their order of arrival.
AddClient(v) ==
    /\ ~panicked
    /\ pc[v] = "addclient"
    /\ v = "ws2" => pc["ws1"] # "addclient" \/ "ws1" \in clientsMu.waiting
    /\ IF CanLock(clientsMu)
       THEN /\ clients' = clients \cup {v}
            /\ clientsMu' = Unlock(LockOrWait(clientsMu, v))
            /\ pc' = [pc EXCEPT ![v] = "getlines"]
       ELSE /\ v \notin clientsMu.waiting
            /\ clientsMu' = LockOrWait(clientsMu, v)
            /\ UNCHANGED <<clients, pc>>
    /\ UNCHANGED <<maxBufferSize, recentLines, mu, cur, input, exits, faults, repeat, nread, todo, lines,
                   transport, recv, appended, errlog, panicked>>

\* ---------------------------------------------------------------- GetLines, SendHistoryToClient
\* The copy GetLines returns.
GetLines(buf) == buf

\* SendHistoryToClient calls GetLines: b.mu.RLock(), the copy, the deferred
\* RUnlock (one step: the read lock is held for the copy alone)
GetLinesCopy(v) ==
    /\ ~panicked
    /\ pc[v] = "getlines"
    /\ CanRLock(mu)
    /\ mu' = RUnlock(RLock(mu, v), v)
    /\ lines' = [lines EXCEPT ![v] = GetLines(recentLines)]
    /\ pc' = [pc EXCEPT ![v] = IF lines'[v] = <<>> THEN "receive" ELSE "history"]
    /\ UNCHANGED <<maxBufferSize, recentLines, clients, clientsMu, cur, input, exits, faults, repeat, nread,
                   todo, transport, recv, appended, errlog, panicked>>

\* one iteration of SendHistoryToClient's loop (the result of Send is dropped)
SendHistoryToClient(v) ==
    /\ ~panicked
    /\ pc[v] = "history"
    /\ transport[v] # "hang"
    /\ \E o \in SendOutcomes(transport[v], faults[v]) :
          /\ transport' = [transport EXCEPT ![v] = o]
          /\ IF o = "hang"
             THEN UNCHANGED <<recv, lines, pc>>
             ELSE /\ recv' = [recv EXCEPT ![v] = Sent(@, <<"hist", Head(lines[v])>>, o = "err")]
                  /\ lines' = [lines EXCEPT ![v] = Tail(@)]
                  /\ pc' = [pc EXCEPT ![v] = IF lines'[v] = <<>> THEN "receive" ELSE "history"]
    /\ UNCHANGED <<maxBufferSize, recentLines, clients, mu, clientsMu, cur, input, exits, faults, repeat,
                   nread, todo, appended, errlog, panicked>>

\* ---------------------------------------------------------------- WSHandler, RemoveClient
\* The peer closes the connection, or has gone away already:
\* websocket.JSON.Receive returns an error, the loop breaks, the deferred
\* RemoveClient runs; writes to the connection fail from here on
WSHandlerReceiveError(v) ==
    /\ ~panicked
    /\ pc[v] = "receive"
    /\ "leave" \in faults[v] \/ transport[v] = "err"
    /\ transport' = [transport EXCEPT ![v] = "err"]
    /\ pc' = [pc EXCEPT ![v] = "removeclient"]
    /\ UNCHANGED <<maxBufferSize, recentLines, clients, mu, clientsMu, cur, input, exits, faults, repeat,
                   nread, todo, lines, recv, appended, errlog, panicked>>

\* b.clientsMu.Lock(), delete(b.clients, ws), b.clientsMu.Unlock(); the
\* caller queues as a pending writer while a Broadcast holds the read lock
RemoveClient(v) ==
    /\ ~panicked
    /\ pc[v] = "removeclient"
    /\ IF CanLock(clientsMu)
       THEN /\ clients' = clients \ {v}
            /\ clientsMu' = Unlock(LockOrWait(clientsMu, v))
            /\ pc' = [pc EXCEPT ![v] = "gone"]
       ELSE /\ v \notin clientsMu.waiting
            /\ clientsMu' = LockOrWait(clientsMu, v)
            /\ UNCHANGED <<clients, pc>>
    /\ UNCHANGED <<maxBufferSize, recentLines, mu, cur, input, exits, faults, repeat, nread, todo, lines,
                   transport, recv, appended, errlog, panicked>>

\* ---------------------------------------------------------------- repeated calls
\* AddClient and RemoveClient are exported methods; a caller other than
\* WSHandler may call them again for a connection.
\* AddClient(ws) is called again after AddClient(ws) returned
AddClientAgain(v) ==
    /\ ~panicked
    /\ pc[v] = "receive"
    /\ repeat[v] > 0
    /\ repeat' = [repeat EXCEPT ![v] = @ - 1]
    /\ pc' = [pc EXCEPT ![v] = "addclient"]
    /\ UNCHANGED <<maxBufferSize, recentLines, clients, mu, clientsMu, cur, input, exits, faults,
                   nread, todo, lines, transport, recv, appended, errlog, panicked>>

\* RemoveClient(ws) is called again after RemoveClient(ws) returned
RemoveClientAgain(v) ==
    /\ ~panicked
    /\ pc[v] = "gone"
    /\ repeat[v] > 0
    /\ repeat' = [repeat EXCEPT ![v] = @ - 1]
    /\ pc' = [pc EXCEPT ![v] = "removeclient"]
    /\ UNCHANGED <<maxBufferSize, recentLines, clients, mu, clientsMu, cur, input, exits, faults,
                   nread, todo, lines, transport, recv, appended, errlog, panicked>>


\* ---------------------------------------------------------------- statement by statement
\* The four operations with every Lock, critical section and Unlock a step of
\* its own, so that a lock is seen held.
\* m.Lock() called by p at position at: taken (p moves to position held) or
\* p queues as a pending writer
LockStep(m, p, at, held) ==
    /\ ~panicked
    /\ pc[p] = at
    /\ IF CanLock(m)
       THEN pc' = [pc EXCEPT ![p] = held]
       ELSE p \notin m.waiting /\ UNCHANGED pc

\* AddLine: b.mu.Lock()
AddLineLock(p) ==
    /\ LockStep(mu, p, "addline", "locked")
    /\ mu' = LockOrWait(mu, p)
    /\ UNCHANGED <<maxBufferSize, recentLines, clients, clientsMu, cur, input, exits, faults,
                   repeat, nread, todo, lines, transport, recv, appended, errlog, panicked>>

\* AddLine: the test of the length and b.recentLines[1:] (panics on an empty
\* slice, with mu locked)
AddLineShift(p) ==
    /\ ~panicked
    /\ pc[p] = "locked"
    /\ IF AddLinePanics(recentLines, maxBufferSize)
       THEN /\ panicked' = TRUE
            /\ UNCHANGED <<recentLines, pc>>
       ELSE /\ recentLines' = IF Len(recentLines) >= maxBufferSize
                              THEN Rest(recentLines) ELSE recentLines
            /\ pc' = [pc EXCEPT ![p] = "append"]
            /\ UNCHANGED panicked
    /\ UNCHANGED <<maxBufferSize, clients, mu, clientsMu, cur, input, exits, faults, repeat,
                   nread, todo, lines, transport, recv, appended, errlog>>

\* AddLine: append(..., line) and b.mu.Unlock()
AddLineAppend(p) ==
    /\ ~panicked
    /\ pc[p] = "append"
    /\ recentLines' = Append(recentLines, cur[p])
    /\ appended' = Append(appended, cur[p])
    /\ mu' = Unlock(mu)
    /\ pc' = [pc EXCEPT ![p] = "broadcast"]
    /\ UNCHANGED <<maxBufferSize, clients, clientsMu, cur, input, exits, faults, repeat, nread,
                   todo, lines, transport, recv, errlog, panicked>>

\* GetLines: b.mu.RLock()
GetLinesRLock(v) ==
    /\ ~panicked
    /\ pc[v] = "getlines"
    /\ CanRLock(mu)
    /\ mu' = RLock(mu, v)
    /\ pc' = [pc EXCEPT ![v] = "copy"]
    /\ UNCHANGED <<maxBufferSize, recentLines, clients, clientsMu, cur, input, exits, faults,
                   repeat, nread, todo, lines, transport, recv, appended, errlog, panicked>>

\* GetLines: make, copy, and the deferred b.mu.RUnlock() on return
GetLinesReturn(v) ==
    /\ ~panicked
    /\ pc[v] = "copy"
    /\ lines' = [lines EXCEPT ![v] = GetLines(recentLines)]
    /\ mu' = RUnlock(mu, v)
    /\ pc' = [pc EXCEPT ![v] = IF lines'[v] = <<>> THEN "receive" ELSE "history"]
    /\ UNCHANGED <<maxBufferSize, recentLines, clients, clientsMu, cur, input, exits, faults,
                   repeat, nread, todo, transport, recv, appended, errlog, panicked>>

\* AddClient: b.clientsMu.Lock()
AddClientLock(v) ==
    /\ v = "ws2" => pc["ws1"] # "addclient" \/ "ws1" \in clientsMu.waiting
    /\ LockStep(clientsMu, v, "addclient", "register")
    /\ clientsMu' = LockOrWait(clientsMu, v)
    /\ UNCHANGED <<maxBufferSize, recentLines, clients, mu, cur, input, exits, faults, repeat,
                   nread, todo, lines, transport, recv, appended, errlog, panicked>>

\* AddClient: b.clients[ws] = true and b.clientsMu.Unlock()
AddClientStore(v) ==
    /\ ~panicked
    /\ pc[v] = "register"
    /\ clients' = clients \cup {v}
    /\ clientsMu' = Unlock(clientsMu)
    /\ pc' = [pc EXCEPT ![v] = "getlines"]
    /\ UNCHANGED <<maxBufferSize, recentLines, mu, cur, input, exits, faults, repeat, nread,
                   todo, lines, transport, recv, appended, errlog, panicked>>

\* RemoveClient: b.clientsMu.Lock()
RemoveClientLock(v) ==
    /\ LockStep(clientsMu, v, "removeclient", "unregister")
    /\ clientsMu' = LockOrWait(clientsMu, v)
    /\ UNCHANGED <<maxBufferSize, recentLines, clients, mu, cur, input, exits, faults, repeat,
                   nread, todo, lines, transport, recv, appended, errlog, panicked>>

\* RemoveClient: delete(b.clients, ws) and b.clientsMu.Unlock()
RemoveClientDelete(v) ==
    /\ ~panicked
    /\ pc[v] = "unregister"
    /\ clients' = clients \ {v}
    /\ clientsMu' = Unlock(clientsMu)
    /\ pc' = [pc EXCEPT ![v] = "gone"]
    /\ UNCHANGED <<maxBufferSize, recentLines, mu, cur, input, exits, faults, repeat, nread,
                   todo, lines, transport, recv, appended, errlog, panicked>>


\* ---------------------------------------------------------------- specification
Next ==
    \/ MainAnnounce
    \/ ExecuteCommandLaunch
    \/ ExecuteCommandWait
    \/ \E s \in Streams : ProcessStreamScan(s)
    \/ \E p \in Ingesters : AddLineStore(p)
    \/ \E p \in Ingesters : BroadcastRLock(p)
    \/ \E p \in Ingesters : \E c \in Viewers : BroadcastSend(p, c)
    \/ \E p \in Ingesters : BroadcastReturn(p)
    \/ \E v \in Viewers : AddClient(v)
    \/ \E v \in Viewers : GetLinesCopy(v)
    \/ \E v \in Viewers : SendHistoryToClient(v)
    \/ \E v \in Viewers : WSHandlerReceiveError(v)
    \/ \E v \in Viewers : RemoveClient(v)

Spec == Init /\ [][Next]_vars
SpecStreams == InitStreams /\ [][Next]_vars
SpecAgree == InitAgree /\ [][Next]_vars
SpecOrder == InitOrder /\ [][Next]_vars

\* The program with a caller that repeats calls of AddClient and RemoveClient
\* for the one connection, whose peer keeps reading until it leaves; one line
\* at most after the announcement.
InitAgain ==
    InitCalls(0..MaxCap, {r \in OneStream : Weight(r) <= 1}, [v \in {"ws1"} |-> Leaves],
              MaxRepeat)

NextAgain ==
    \/ Next
    \/ \E v \in Viewers : AddClientAgain(v)
    \/ \E v \in Viewers : RemoveClientAgain(v)

SpecAgain == InitAgain /\ [][NextAgain]_vars

\* The program statement by statement: one stream, two lines at most after
\* the announcement, one viewer whose peer keeps reading until it leaves.
InitFine ==
    InitWith(0..MaxCap, {r \in OneStream : Weight(r) <= 2}, [v \in {"ws1"} |-> Leaves])

NextFine ==
    \/ MainAnnounce
    \/ ExecuteCommandLaunch
    \/ ExecuteCommandWait
    \/ \E s \in Streams : ProcessStreamScan(s)
    \/ \E p \in Ingesters : AddLineLock(p)
    \/ \E p \in Ingesters : AddLineShift(p)
    \/ \E p \in Ingesters : AddLineAppend(p)
    \/ \E p \in Ingesters : BroadcastRLock(p)
    \/ \E p \in Ingesters, c \in Viewers : BroadcastSend(p, c)
    \/ \E p \in Ingesters : BroadcastReturn(p)
    \/ \E v \in Viewers : AddClientLock(v)
    \/ \E v \in Viewers : AddClientStore(v)
    \/ \E v \in Viewers : GetLinesRLock(v)
    \/ \E v \in Viewers : GetLinesReturn(v)
    \/ \E v \in Viewers : SendHistoryToClient(v)
    \/ \E v \in Viewers : WSHandlerReceiveError(v)
    \/ \E v \in Viewers : RemoveClientLock(v)
    \/ \E v \in Viewers : RemoveClientDelete(v)

SpecFine == InitFine /\ [][NextFine]_vars
SpecFaulty == InitFaulty /\ [][Next]_vars

\* The goroutines run whenever they can, and a Receive on a connection whose
\* peer has gone away returns; when a peer goes away, and when a viewer calls
\* in, is not theirs to decide.
Fairness ==
    /\ WF_vars(MainAnnounce) /\ WF_vars(ExecuteCommandLaunch) /\ WF_vars(ExecuteCommandWait)
    /\ \A s \in Streams : WF_vars(ProcessStreamScan(s))
    /\ \A p \in Ingesters :
          /\ WF_vars(AddLineStore(p))
          /\ WF_vars(BroadcastRLock(p))
          /\ WF_vars(BroadcastReturn(p))
          /\ \A c \in Viewers : WF_vars(BroadcastSend(p, c))
    /\ \A v \in Viewers :
          /\ WF_vars(GetLinesCopy(v))
          /\ WF_vars(SendHistoryToClient(v))
          /\ WF_vars(RemoveClient(v))
          /\ WF_vars(transport[v] = "err" /\ WSHandlerReceiveError(v))

FairFaulty == SpecFaulty /\ Fairness

\* The same for the program statement by statement; a call of AddClient that
\* waits for the lock gets it when it can.
FairnessFine ==
    /\ WF_vars(MainAnnounce) /\ WF_vars(ExecuteCommandLaunch) /\ WF_vars(ExecuteCommandWait)
    /\ \A s \in Streams : WF_vars(ProcessStreamScan(s))
    /\ \A p \in Ingesters :
          /\ WF_vars(AddLineLock(p))
          /\ WF_vars(AddLineShift(p))
          /\ WF_vars(AddLineAppend(p))
          /\ WF_vars(BroadcastRLock(p))
          /\ WF_vars(BroadcastReturn(p))
          /\ \A c \in Viewers : WF_vars(BroadcastSend(p, c))
    /\ \A v \in Viewers :
          /\ WF_vars(v \in clientsMu.waiting /\ AddClientLock(v))
          /\ WF_vars(AddClientStore(v))
          /\ WF_vars(GetLinesRLock(v))
          /\ WF_vars(GetLinesReturn(v))
          /\ WF_vars(SendHistoryToClient(v))
          /\ WF_vars(RemoveClientLock(v))
          /\ WF_vars(RemoveClientDelete(v))
          /\ WF_vars(transport[v] = "err" /\ WSHandlerReceiveError(v))

FairFine == SpecFine /\ FairnessFine

\* ---------------------------------------------------------------- what a viewer has seen
\* Position of a line in a sequence of lines that holds it once.
Pos(seq, x) == CHOOSE i \in 1..Len(seq) : seq[i] = x

\* The lines written to c, as history, live, or either.
HistLines(c) == {recv[c][i][2] : i \in {k \in 1..Len(recv[c]) : recv[c][k][1] = "hist"}}
LiveLines(c) == {recv[c][i][2] : i \in {k \in 1..Len(recv[c]) : recv[c][k][1] = "live"}}
Got(c) == HistLines(c) \cup LiveLines(c)

\* Position in c's log of the live message carrying line x.
LivePos(c, x) == CHOOSE i \in 1..Len(recv[c]) : recv[c][i] = <<"live", x>>

\* No AddLine call is under way.
Quiet == \A p \in Ingesters : pc[p] \notin {"addline", "broadcast", "range"}

\* ---------------------------------------------------------------- claims
\* C1: no line is written to a connection twice, once as part of the history
\* sent on joining and once as a live line.
C1_NoDuplicateOnJoin ==
    \A c \in Viewers : HistLines(c) \cap LiveLines(c) = {}

\* C2: a connection gets its live lines in the order in which they were
\* appended to the replay buffer.
C2_OrderedDelivery ==
    \A c \in Viewers : \A x, y \in LiveLines(c) :
        LivePos(c, x) < LivePos(c, y) => Pos(appended, x) < Pos(appended, y)

\* C3: once every AddLine call has returned and a healthy, registered viewer
\* has been sent its history, no line newer than the oldest line it got is
\* missing from what it got.
C3_NoGapOnJoin ==
    \A c \in Viewers :
        (Quiet /\ pc[c] = "receive" /\ c \in clients /\ transport[c] = "ok")
        => \A i, j \in 1..Len(appended) :
              (i < j /\ appended[i] \in Got(c)) => appended[j] \in Got(c)

\* C4: a connection is sent every line of its history before any live line.
C4_HistoryBeforeLive ==
    \A c \in Viewers : \A i, j \in 1..Len(recv[c]) :
        (recv[c][i][1] = "live" /\ recv[c][j][1] = "hist") => j < i

\* C5: two connections that both got the same two lines live got them in
\* the same order.
C5_Agreement ==
    \A c, d \in Viewers : \A x, y \in LiveLines(c) \cap LiveLines(d) :
        (LivePos(c, x) < LivePos(c, y)) <=> (LivePos(d, x) < LivePos(d, y))

\* C6: with capacity 0 no AddLine call panics or keeps mu locked (so that it
\* goes on to fan its line out), and GetLines returns the empty sequence.
C6_CapacityZeroLegal ==
    maxBufferSize = 0 =>
        /\ ~panicked
        /\ mu.writer = NoOne
        /\ GetLines(recentLines) = <<>>

\* C7: with capacity C >= 1, after n lines were added GetLines returns the
\* last min(C, n) of them, in the order they were added.
C7_Eviction ==
    maxBufferSize >= 1 =>
        GetLines(recentLines) = LastN(appended, Min(maxBufferSize, Len(appended)))

C7_Witness ==
    /\ maxBufferSize = 2
    /\ Len(appended) >= 4
    /\ recentLines = LastN(appended, 2)

\* C8: the buffer never holds more lines than its capacity.
C8_BoundedBuffer == Len(recentLines) <= maxBufferSize

C8_Witness ==
    /\ maxBufferSize >= 1
    /\ Len(appended) > maxBufferSize
    /\ Len(recentLines) = maxBufferSize
    /\ pc["ws1"] = "gone"

\* C9: a send that blocks stalls nothing: every Broadcast under way returns
\* (so the fan-out of its line is over and its goroutine adds its next line).
C9_SlowSubscriberCannotStall ==
    \A p \in Ingesters : (pc[p] = "range") ~> (pc[p] # "range")

\* C10: while Broadcast fans a line out, every registered client its loop has
\* visited either got the line or had its error logged, a failed send takes
\* no other client out of the loop, and the line is in the replay buffer unless newer
\* lines have since pushed it out.
C10_IsolationOnFailure ==
    \A p \in Ingesters : pc[p] = "range" =>
        /\ todo[p] \subseteq clients
        /\ \A c \in clients \ todo[p] : c \in errlog[p] \/ cur[p] \in LiveLines(c)
        /\ ~panicked
        /\ cur[p] \in Range(LastN(appended, Min(maxBufferSize, Len(appended))))
             => cur[p] \in Range(recentLines)

C10_Witness ==
    \E p \in Ingesters :
        /\ pc[p] = "range"
        /\ todo[p] = {}
        /\ errlog[p] = {"ws1"}
        /\ cur[p] \in LiveLines("ws2")
        /\ cur[p] \in Range(recentLines)

\* C11: a subscriber to which a send of Broadcast has failed is removed from
\* clients later on, so that it is not sent to for ever.
C11_FailedSubscriberRemoved ==
    \A c \in Viewers : (\E p \in Ingesters : c \in errlog[p]) ~> (c \notin clients)

\* The two completion lines of ExecuteCommand.
Completions == {CompletionLine(failed) : failed \in BOOLEAN}

\* All the lines ProcessStream adds for a stream of the run.
StreamLines(s) ==
    {<<s, k>> : k \in 1..input[s].n} \cup (IF AddsErrorLine(input[s].end) THEN {<<s, 0>>} ELSE {})

\* C12: the completion line is added only when both ProcessStream goroutines
\* have added all their lines, and no line is added after it.
C12_CompletionLineLast ==
    \A i \in 1..Len(appended) :
        appended[i] \in Completions =>
            /\ i = Len(appended)
            /\ \A s \in Streams : StreamLines(s) \subseteq Range(appended)

\* ExecuteCommand returned without having started the child.
LaunchFailed == pc["main"] = "done" /\ \A s \in Streams : pc[s] = "off"

\* C14: when the command could not be launched, a system line that tells so
\* has been added, after the announcement, by the time the run is over.
C14_LaunchFailureReported ==
    LaunchFailed =>
        \E i \in 1..Len(appended) : appended[i][1] = "main" /\ appended[i][2] # 1

\* The lines added so far that ProcessStream made of stream s, in the order added.
FromStream(s) == SelectSeq(appended, LAMBDA l : l[1] = s)

\* What a stream is to leave in the transcript: its lines in the order read,
\* then one error line if reading ended with an error.
Expected(s) ==
    [k \in 1..input[s].n |-> <<s, k>>] \o (IF input[s].end = "err" THEN <<<<s, 0>>>> ELSE <<>>)

IsPrefix(a, b) == Len(a) <= Len(b) /\ a = SubSeq(b, 1, Len(a))

\* C15: ProcessStream adds the lines it read and, after them, exactly one
\* error line when reading ended with an error and none when it ended
\* cleanly; then it returns.
C15_OneErrorLineAfterReadError ==
    \A s \in Streams :
        /\ IsPrefix(FromStream(s), Expected(s))
        /\ pc[s] = "done" => FromStream(s) = Expected(s)

C15_Witness ==
    \E s \in Streams :
        /\ pc[s] = "done"
        /\ input[s] = [n |-> MaxLines, end |-> "err"]
        /\ FromStream(s) = Expected(s)

\* The places of completion lines in the transcript.
CompletionAt == {i \in 1..Len(appended) : appended[i] \in Completions}

\* The child was started: ExecuteCommand got past cmd.Start().
Started == \E s \in Streams : pc[s] # "off"

\* C16: a run in which the child was started gets exactly one completion
\* line: never two, the one that matches the result of cmd.Wait(), and it is
\* there when ExecuteCommand has returned.
C16_OneCompletionLine ==
    /\ Cardinality(CompletionAt) <= 1
    /\ \A i \in CompletionAt : Started /\ appended[i] = CompletionLine(exits = "error")
    /\ (Started /\ pc["main"] = "done") => Cardinality(CompletionAt) = 1

C16_Witness ==
    /\ Started
    /\ pc["main"] = "done"
    /\ exits = "error"
    /\ appended[Len(appended)] = CompletionLine(TRUE)

\* Line a comes before line b in the reading order of their stream.
ReadBefore(a, b) == a[2] # 0 /\ (b[2] = 0 \/ a[2] < b[2])

\* The lines of stream s stand in seq in the order in which they were read.
StreamOrdered(seq, s) ==
    \A i, j \in 1..Len(seq) :
        (i < j /\ seq[i][1] = s /\ seq[j][1] = s) => ReadBefore(seq[i], seq[j])

\* The lines sent to viewer c by Broadcast, in the order sent.
LiveSeq(c) == [i \in 1..Len(SelectSeq(recv[c], LAMBDA m : m[1] = "live")) |->
                  SelectSeq(recv[c], LAMBDA m : m[1] = "live")[i][2]]

C19_NoSendAfterRemoveClient ==
    \A v \in Viewers :
        pc[v] = "gone" => v \notin clients /\ \A p \in Ingesters : v \notin todo[p]

C19_Witness ==
    /\ pc["ws1"] = "gone"
    /\ LiveLines("ws1") # {}
    /\ \E p \in Ingesters : pc[p] = "range" /\ "ws1" \notin todo[p]

\* C13: registering a connection again leaves it in the registry once and
\* every line, those of the history included, is written to it once only.
\* (Removing a connection that is not registered changes nothing.)
C13_IdempotentRegistration ==
    \A c \in Viewers :
        \A i, j \in 1..Len(recv[c]) : i < j => recv[c][i] # recv[c][j]

\* The sequence GetLines returned to the handler of v: what SendHistoryToClient
\* has written of it and what it has yet to write.
Returned(v) ==
    [i \in 1..Len(SelectSeq(recv[v], LAMBDA m : m[1] = "hist")) |->
        SelectSeq(recv[v], LAMBDA m : m[1] = "hist")[i][2]] \o lines[v]

\* The contents the buffer had between AddLine calls.
Committed ==
    {LastN(SubSeq(appended, 1, k), Min(k, maxBufferSize)) : k \in 0..Len(appended)}

\* GetLines has returned to the handler of v.
HasSnapshot(v) == pc[v] \in {"history", "receive", "removeclient", "unregister", "gone"}

\* C18: GetLines leaves the buffer and the registry as they are; what it
\* returns is the content the buffer had at one moment, never a half-done
\* append or eviction; and no later AddLine changes a sequence it returned.
C18_SnapshotIsFrozenCopy ==
    /\ [](\A v \in Viewers : HasSnapshot(v) => Returned(v) \in Committed)
    /\ [][\A v \in Viewers :
            /\ (pc[v] \in {"getlines", "copy"} /\ pc'[v] # pc[v]) =>
                   (recentLines' = recentLines /\ clients' = clients)
            /\ (HasSnapshot(v) /\ HasSnapshot(v)') => Returned(v)' = Returned(v)]_vars

C18_Witness ==
    /\ HasSnapshot("ws1")
    /\ Len(Returned("ws1")) = maxBufferSize
    /\ maxBufferSize > 1
    /\ Returned("ws1") # recentLines
    /\ Len(recentLines) = maxBufferSize

\* Goroutine p holds lock m, for writing or for reading.
Holds(m, p) == m.writer = p \/ p \in m.readers

\* A call of AddLine by p is under way.
InAddLine(p) == pc[p] \in {"addline", "locked", "append", "broadcast", "range"}

\* A call of AddClient (with its GetLines) or RemoveClient for v is under way.
InViewerCall(v) ==
    \/ pc[v] \in {"register", "getlines", "copy", "history", "unregister"}
    \/ pc[v] \in {"addclient", "removeclient"} /\ v \in clientsMu.waiting

\* C20: no goroutine holds mu and clientsMu at once, and, every send
\* returning, every call of AddLine, GetLines, AddClient and RemoveClient
\* that is under way comes to its end.
C20_NoDeadlock ==
    /\ [](\A p \in Procs : ~(Holds(mu, p) /\ Holds(clientsMu, p)))
    /\ \A p \in Ingesters : InAddLine(p) ~> ~InAddLine(p)
    /\ \A v \in Viewers : InViewerCall(v) ~> ~InViewerCall(v)
====
